---- MODULE Spec2Model ----
(***************************************************************************)
(* ConvoConnect backend (Convo_Backend/index.js, Convo_Backend/db.js):     *)
(* the room lifecycle handlers of the Express application over the         *)
(* MongoDB collections Room, RoomMember and Message.                       *)
(*                                                                         *)
(* Node.js runs one handler at a time up to its next `await`; every await  *)
(* of a store call is one atomic step of the model, and the steps of the   *)
(* requests in flight interleave freely.                                   *)
(***************************************************************************)
EXTENDS Integers, Sequences, FiniteSets, TLC

\* ---------------------------------------------------------------- bounds
NumSlots == 2        \* requests that can be in flight at the same time
MaxRooms == 2        \* Room documents ever created, where several rooms matter
MaxRows == 3         \* RoomMember documents ever created
MaxMsgs == 1         \* Message documents ever created
CodeLength == 1      \* characters of a room code (6 in the source)

Slots == 1..NumSlots
Users == {"u1", "u2", "u3"}
\* users are interchangeable: the one who creates rooms is called u1
Creators == {"u1"}

\* ------------------------------------------------------- program constants
DefaultMaxMembers == 50

\* the alphabet of generateRoomCode, cut down to its first two characters
characters == <<"A", "B">>

Codes == [1..CodeLength -> {characters[i] : i \in DOMAIN characters}]
FirstCode == [i \in 1..CodeLength |-> characters[1]]

\* the room ids a client can put in a URL
RoomIds == 1..MaxRooms

\* ObjectIds as hexadecimal strings, cut down to one digit: room 1 is "a"
HexDigits == <<"a", "b", "c">>
UpperHexDigits == <<"A", "B", "C">>

\* String(room._id), ObjectId.prototype.toHexString: lower-case hexadecimal
ToHexString(id) == HexDigits[id]

\* mongoose casting a string to an ObjectId: hexadecimal digits of either case;
\* 0 stands for the CastError of any other string
CastObjectId(str) ==
    IF \E i \in DOMAIN HexDigits : str \in {HexDigits[i], UpperHexDigits[i]}
    THEN CHOOSE i \in DOMAIN HexDigits : str \in {HexDigits[i], UpperHexDigits[i]}
    ELSE 0

\* the socket.io connections
Conns == {"c1", "c2"}

\* --------------------------------------------------------- environments
\* What the clients are and send. `rooms` rooms are created at most; the
\* generator draws from `codes`; with `ties` two RoomMember documents, or two
\* messages, can be created within the same millisecond; `roomIds` are the ids put in the URL of
\* a message, details or rename request and `joinRoom` the arguments of the
\* joinRoom events; with `faults` a RoomMember.create can be rejected by the
\* store; `renames` are the names put in the body of a rename request; with
\* `drops` the push of an event to a connection can fail; `msgs` messages are
\* stored at most.

\* three users around one room of capacity 2, sending well-formed requests
OneRoom ==
    [users |-> Users, rooms |-> 1, codes |-> {FirstCode}, ties |-> FALSE,
     names |-> {"Test"}, maxMembers |-> {2}, roomCodes |-> {FirstCode},
     contents |-> {<<"h">>}, roomIds |-> {ToHexString(i) : i \in RoomIds},
     joinRoom |-> {}, faults |-> FALSE, renames |-> {}, drops |-> FALSE,
     msgs |-> MaxMsgs]

\* two users and several rooms, whose codes can collide
ManyRooms ==
    [users |-> {"u1", "u2"}, rooms |-> MaxRooms, codes |-> Codes, ties |-> FALSE,
     names |-> {"Test"}, maxMembers |-> {2}, roomCodes |-> Codes,
     contents |-> {<<"h">>}, roomIds |-> {ToHexString(i) : i \in RoomIds},
     joinRoom |-> {}, faults |-> FALSE, renames |-> {}, drops |-> FALSE,
     msgs |-> MaxMsgs]

\* three users around one room of the default capacity; two memberships can be
\* created within the same millisecond
SameMillisecond ==
    [users |-> Users, rooms |-> 1, codes |-> {FirstCode}, ties |-> TRUE,
     names |-> {"Test"}, maxMembers |-> {0}, roomCodes |-> {FirstCode},
     contents |-> {<<"h">>}, roomIds |-> {ToHexString(i) : i \in RoomIds},
     joinRoom |-> {}, faults |-> FALSE, renames |-> {}, drops |-> FALSE,
     msgs |-> MaxMsgs]

\* two users around one room of capacity 2, who also ask for its details and
\* type its code as it is, in lower case between spaces, or type another code
TwoUsers ==
    [users |-> {"u1", "u2"}, rooms |-> 1, codes |-> {FirstCode}, ties |-> FALSE,
     names |-> {"Test"}, maxMembers |-> {2},
     roomCodes |-> {FirstCode,
                    <<" ">> \o [i \in 1..CodeLength |-> "a"] \o <<" ">>,
                    [i \in 1..CodeLength |-> characters[2]]},
     contents |-> {<<"h">>}, roomIds |-> {ToHexString(1)},
     joinRoom |-> {}, faults |-> FALSE, renames |-> {}, drops |-> FALSE,
     msgs |-> MaxMsgs]

\* one user in two rooms, who spells the id of the first room in either case,
\* and connections that subscribe to the rooms by their ids
Fanout ==
    [users |-> {"u1"}, rooms |-> 2, codes |-> Codes, ties |-> FALSE,
     names |-> {"Test"}, maxMembers |-> {2}, roomCodes |-> Codes,
     contents |-> {<<"h">>},
     roomIds |-> {ToHexString(1), UpperHexDigits[1], ToHexString(2)},
     joinRoom |-> {"", ToHexString(1), ToHexString(2)}, faults |-> FALSE, renames |-> {}, drops |-> FALSE,
     msgs |-> MaxMsgs]

\* two users and several rooms, over a store that can reject a
\* RoomMember.create
Faulty == [ManyRooms EXCEPT !.faults = TRUE]

\* three users around one room, who also rename it, or try to with no name
Renaming ==
    [OneRoom EXCEPT !.roomIds = {ToHexString(1)}, !.renames = {"", "New"}]

\* a member and an outsider of one room, who send it messages of which some
\* are blank or padded, and connections that subscribe to it or to another
\* room, over transports that can fail
Chat ==
    [OneRoom EXCEPT !.users = {"u1", "u2"},
                    !.contents = {<< >>, <<" ">>, <<"h">>, <<" ", "h", " ">>},
                    !.roomIds = {ToHexString(1)},
                    !.joinRoom = {ToHexString(1), ToHexString(2)},
                    !.drops = TRUE]

\* two users who create rooms with a negative, a missing or zero, and a
\* positive maxMembers
Capacities == [ManyRooms EXCEPT !.maxMembers = {-1, 0, 1}]

\* the member of one room, who sends it two messages while connections
\* subscribe to it or to another room, over transports that can fail
Pushing ==
    [Chat EXCEPT !.users = {"u1"}, !.contents = {<<"h">>}, !.msgs = MaxMsgs + 1]

\* the two members of one room, who write to it, read its messages and leave
\* it, over transports that can fail; two messages can be stored in the same
\* millisecond
Reading ==
    [OneRoom EXCEPT !.users = {"u1", "u2"},
                    !.ties = TRUE,
                    !.roomIds = {ToHexString(1)},
                    !.drops = TRUE,
                    !.msgs = MaxMsgs + 1]

\* two users and two rooms that are joined, left, renamed and written to,
\* one of which holds a message already
TwoRooms ==
    [ManyRooms EXCEPT !.renames = {"New"}, !.msgs = MaxMsgs + 1]

VARIABLES
    Room,          \* the rooms collection: set of documents
    RoomMember,    \* the roommembers collection: set of documents
    Message,       \* the messages collection: set of documents
    nextRoomId,    \* the next fresh Room _id
    nextMemberId,  \* the next fresh RoomMember _id
    nextMsgId,     \* the next fresh Message _id
    now,           \* Date.now() of the latest RoomMember document
    env,           \* the environment, fixed
    req,           \* per slot: the request in flight and its local variables
    resp,          \* the body of the response sent by the last step, "" if none
    io,            \* the socket.io server: its sockets and the last emit
    body           \* the documents in the response sent by the last step

vars ==
    <<Room, RoomMember, Message, nextRoomId, nextMemberId, nextMsgId, now, env, req,
      resp, io, body>>
store == <<Room, RoomMember, Message, nextRoomId, nextMemberId, nextMsgId, now, env>>

\* ------------------------------------------------------------- documents
NullRoom == [_id |-> 0, name |-> "", roomCode |-> << >>, owner |-> "", maxMembers |-> 0]
NullMember == [_id |-> 0, room |-> 0, user |-> "", role |-> "", joinedAt |-> 0]
NullMessage ==
    [_id |-> 0, room |-> 0, author |-> "", content |-> << >>, createdAt |-> 0]

\* a response that carries no document the claims look at
NoBody ==
    [room |-> NullRoom, members |-> << >>, membership |-> NullMember,
     message |-> NullMessage, messages |-> << >>]

Idle ==
    [pc |-> "idle", user |-> "", name |-> "", roomCode |-> << >>, maxMembers |-> 0, content |-> << >>,
     roomId |-> "", room |-> NullRoom, membership |-> NullMember, newOwnerMembership |-> NullMember,
     message |-> NullMessage, solo |-> FALSE]

Free(s) == req[s].pc = "idle"
\* a new request takes the first free slot
Accepts(s) == Free(s) /\ \A t \in 1..(s - 1) : ~Free(t)
Quiescent == \A s \in Slots : Free(s)

\* A request enters slot s; every request already in flight is now overlapped.
Begin(s, r) ==
    /\ req' = [t \in Slots |->
                 IF t = s THEN [r EXCEPT !.solo = \A o \in Slots \ {s} : Free(o)]
                 ELSE IF Free(t) THEN req[t]
                 ELSE [req[t] EXCEPT !.solo = FALSE]]
    /\ resp' = ""
    /\ body' = NoBody

\* The handler of slot s awaits its next store call.
Step(s, r) == req' = [req EXCEPT ![s] = r] /\ resp' = "" /\ body' = NoBody

\* res.status(...).json(...): the response is sent and the handler returns.
Respond(s, status) == req' = [req EXCEPT ![s] = Idle] /\ resp' = status /\ body' = NoBody

\* res.json(documents)
RespondWith(s, status, documents) ==
    req' = [req EXCEPT ![s] = Idle] /\ resp' = status /\ body' = documents

\* A request that is answered before its first await.
Reject(s, status) == req' = req /\ resp' = status /\ body' = NoBody

\* --------------------------------------------------------------- sockets
\* a socket: whether it is connected, the rooms it has joined, and the rooms it
\* was in when it disconnected
Closed == [open |-> FALSE, rooms |-> {}, was |-> {}]
\* the server: its sockets, the connections that the last emit reached and
\* failed to reach, and what the client of each connection has received: the
\* ids of the messages pushed to it, in the order of the pushes
NoSockets ==
    [sockets |-> [c \in Conns |-> Closed], delivered |-> {}, dropped |-> {},
     inbox |-> [c \in Conns |-> << >>]]

\* io.to(name): the open sockets that joined the room of that name
InRoom(name) == {c \in Conns : io.sockets[c].open /\ name \in io.sockets[c].rooms}

\* ------------------------------------------------------- response bodies
RoomNameRequired == "400 Room name is required"
RoomCodeRequired == "400 Room code is required"
ContentRequired == "400 Message content is required"
NotFound == "404 Room not found"
Full == "400 Room is full"
NotMember == "400 You are not a member of this room"
Forbidden == "403 You are not a member of this room"
InternalError == "500 Internal server error"
Created == "201 room"
Joined == "200 room, membership"
Sent == "201 message"
Deleted == "200 deleted: true"
Left == "200 deleted: false, roomId, newOwnerId"
RoomDetails == "200 room, members, membership"
InvalidRoomData == "400 Invalid room data"
OnlyCreator == "403 Only the room creator can rename the room"
Renamed == "200 room"
RoomMessages == "200 messages"

\* ------------------------------------------------------- store operations
\* Room.findById(id)
FindById(id) ==
    IF \E r \in Room : r._id = id THEN CHOOSE r \in Room : r._id = id ELSE NullRoom

\* the rooms collection without its unique index
DuplicateKey_noIndex(code) == FALSE

\* roomSchema: roomCode { unique: true }; an insert of a taken code is rejected
DuplicateKey(code) == \E r \in Room : r.roomCode = code

\* Room.findOne({ roomCode })
FindByCode(code) ==
    IF \E r \in Room : r.roomCode = code
    THEN CHOOSE r \in Room : r.roomCode = code
    ELSE NullRoom

\* RoomMember.find({ room })
MembersOf(id) == {m \in RoomMember : m.room = id}

\* RoomMember.countDocuments({ room })
CountDocuments(id) == Cardinality(MembersOf(id))

\* RoomMember.findOne({ room, user }): the documents it can return
FindMember(id, u) ==
    IF \E m \in RoomMember : m.room = id /\ m.user = u
    THEN {m \in RoomMember : m.room = id /\ m.user = u}
    ELSE {NullMember}

\* Message.find({ room: roomId }), Message.deleteMany({ room: roomId })
MessagesOf(id) == {m \in Message : m.room = id}

\* .sort({ joinedAt: 1 }): every order of the documents that ascends in joinedAt
SortByJoinedAt(S) ==
    {q \in [1..Cardinality(S) -> S] :
        /\ \A i, j \in 1..Cardinality(S) : i # j => q[i] # q[j]
        /\ \A i, j \in 1..Cardinality(S) : i < j => q[i].joinedAt <= q[j].joinedAt}

\* joinedAt: { default: Date.now }: the clock has advanced since the latest
\* document was created, or it has not
DateNow == IF nextMemberId > 1 /\ env.ties THEN {now, now + 1} ELSE {now + 1}

\* RoomMember.create({ room, user, role })
CreateMember(id, u, role) ==
    /\ nextMemberId <= MaxRows
    /\ \E t \in DateNow :
         /\ RoomMember' = RoomMember \cup
              {[_id |-> nextMemberId, room |-> id, user |-> u, role |-> role,
                joinedAt |-> t]}
         /\ now' = t
    /\ nextMemberId' = nextMemberId + 1

\* document.save() throws DocumentNotFoundError when the document is gone
MemberStored(m) == \E x \in RoomMember : x._id = m._id
RoomStored(r) == \E x \in Room : x._id = r._id

\* ------------------------------------------------------------------ Init
Start(e) ==
    /\ env = e
    /\ Room = {}
    /\ RoomMember = {}
    /\ Message = {}
    /\ nextRoomId = 1
    /\ nextMemberId = 1
    /\ nextMsgId = 1
    /\ now = 0
    /\ req = [s \in Slots |-> Idle]
    /\ resp = ""
    /\ io = NoSockets
    /\ body = NoBody

Init == Start(OneRoom)
InitRooms == Start(ManyRooms)

\* --------------------------------------------------- POST /rooms (create)
\* the body is read and the name validated
Create_start(s) ==
    /\ Accepts(s)
    /\ \E u \in Creators, name \in env.names, maxMembers \in env.maxMembers :
         IF name = ""
         THEN Reject(s, RoomNameRequired)
         ELSE Begin(s, [Idle EXCEPT !.pc = "generateRoomCode", !.user = u,
                                    !.name = name, !.maxMembers = maxMembers])
    /\ UNCHANGED <<store, io>>

\* generateRoomCode: one turn of the loop, a candidate and its lookup
generateRoomCode(s) ==
    /\ req[s].pc = "generateRoomCode"
    /\ \E code \in env.codes :
         IF \E existing \in Room : existing.roomCode = code
         THEN Step(s, req[s])
         ELSE Step(s, [req[s] EXCEPT !.pc = "create_room", !.roomCode = code])
    /\ UNCHANGED <<store, io>>

\* maxMembers || 50
OrDefault(maxMembers) == IF maxMembers = 0 THEN DefaultMaxMembers ELSE maxMembers

\* Room.create
Create_room(s) ==
    /\ req[s].pc = "create_room"
    /\ IF DuplicateKey(req[s].roomCode)
       THEN /\ Respond(s, InternalError)
            /\ UNCHANGED <<store, io>>
       ELSE /\ nextRoomId <= env.rooms
            /\ LET room == [_id |-> nextRoomId, name |-> req[s].name,
                            roomCode |-> req[s].roomCode, owner |-> req[s].user,
                            maxMembers |-> OrDefault(req[s].maxMembers)]
               IN /\ Room' = Room \cup {room}
                  /\ Step(s, [req[s] EXCEPT !.pc = "create_member", !.room = room])
            /\ nextRoomId' = nextRoomId + 1
            /\ UNCHANGED <<RoomMember, Message, nextMemberId, nextMsgId, now, env, io>>

\* a Create that stores the creator's membership with the schema's default role
Create_member_defaultRole(s) ==
    /\ req[s].pc = "create_member"
    /\ CreateMember(req[s].room._id, req[s].user, "member")
    /\ Respond(s, Created)
    /\ UNCHANGED <<Room, Message, nextRoomId, nextMsgId, env, io>>

\* RoomMember.create for the creator, then the response; a create that the
\* store rejects lands in the catch block
Create_member(s) ==
    /\ req[s].pc = "create_member"
    /\ \/ /\ CreateMember(req[s].room._id, req[s].user, "owner")
          /\ Respond(s, Created)
          /\ UNCHANGED <<Room, Message, nextRoomId, nextMsgId, env, io>>
       \/ /\ env.faults
          /\ Respond(s, InternalError)
          /\ UNCHANGED <<store, io>>

\* ------------------------------------------------------- string methods
\* String.prototype.toUpperCase
ToUpperCase(str) ==
    [i \in DOMAIN str |->
        CASE str[i] = "a" -> "A"
          [] str[i] = "b" -> "B"
          [] OTHER -> str[i]]

RECURSIVE TrimStart(_)
TrimStart(str) ==
    IF str # << >> /\ Head(str) = " " THEN TrimStart(Tail(str)) ELSE str

RECURSIVE TrimEnd(_)
TrimEnd(str) ==
    IF str # << >> /\ str[Len(str)] = " "
    THEN TrimEnd(SubSeq(str, 1, Len(str) - 1))
    ELSE str

\* String.prototype.trim
Trim(str) == TrimEnd(TrimStart(str))

\* --------------------------------------------- POST /rooms/join-by-code
\* the code is validated and normalised, and the room looked up
JoinByCode_start(s) ==
    /\ Accepts(s)
    /\ \E u \in env.users, roomCode \in env.roomCodes :
         IF roomCode = << >> \/ Trim(roomCode) = << >>
         THEN Reject(s, RoomCodeRequired)
         ELSE LET room == FindByCode(ToUpperCase(Trim(roomCode)))
              IN IF room = NullRoom
                 THEN Reject(s, NotFound)
                 ELSE Begin(s, [Idle EXCEPT !.pc = "joinByCode_count", !.user = u,
                                            !.room = room])
    /\ UNCHANGED <<store, io>>

\* RoomMember.countDocuments and the capacity check
JoinByCode_count(s) ==
    /\ req[s].pc = "joinByCode_count"
    /\ LET memberCount == CountDocuments(req[s].room._id)
       IN IF memberCount >= req[s].room.maxMembers
          THEN Respond(s, Full)
          ELSE Step(s, [req[s] EXCEPT !.pc = "joinByCode_find"])
    /\ UNCHANGED <<store, io>>

\* RoomMember.findOne({ room, user })
JoinByCode_find(s) ==
    /\ req[s].pc = "joinByCode_find"
    /\ \E membership \in FindMember(req[s].room._id, req[s].user) :
         Step(s, [req[s] EXCEPT !.membership = membership,
                                !.pc = IF membership = NullMember
                                       THEN "joinByCode_create"
                                       ELSE "joinByCode_save"])
    /\ UNCHANGED <<store, io>>

\* a join by code that makes the joining user an owner
JoinByCode_create_asOwner(s) ==
    /\ req[s].pc = "joinByCode_create"
    /\ CreateMember(req[s].room._id, req[s].user, "owner")
    /\ Respond(s, Joined)
    /\ UNCHANGED <<Room, Message, nextRoomId, nextMsgId, env, io>>

\* no membership was found: RoomMember.create with role member
JoinByCode_create(s) ==
    /\ req[s].pc = "joinByCode_create"
    /\ CreateMember(req[s].room._id, req[s].user, "member")
    /\ Respond(s, Joined)
    /\ UNCHANGED <<Room, Message, nextRoomId, nextMsgId, env, io>>

\* a membership was found: status = "online" and membership.save()
JoinByCode_save(s) ==
    /\ req[s].pc = "joinByCode_save"
    /\ IF MemberStored(req[s].membership)
       THEN Respond(s, Joined)
       ELSE Respond(s, InternalError)
    /\ UNCHANGED <<store, io>>

\* --------------------------------------------- POST /rooms/:roomId/join
JoinById_start(s) ==
    /\ Accepts(s)
    /\ \E u \in env.users, roomId \in RoomIds :
         LET room == FindById(roomId)
         IN IF room = NullRoom
            THEN Reject(s, NotFound)
            ELSE Begin(s, [Idle EXCEPT !.pc = "join_count", !.user = u, !.room = room])
    /\ UNCHANGED <<store, io>>

\* a join by id that lets one member more in than the join by code
JoinById_count_strict(s) ==
    /\ req[s].pc = "join_count"
    /\ LET memberCount == CountDocuments(req[s].room._id)
       IN IF memberCount > req[s].room.maxMembers
          THEN Respond(s, Full)
          ELSE Step(s, [req[s] EXCEPT !.pc = "join_find"])
    /\ UNCHANGED <<store, io>>

JoinById_count(s) ==
    /\ req[s].pc = "join_count"
    /\ LET memberCount == CountDocuments(req[s].room._id)
       IN IF memberCount >= req[s].room.maxMembers
          THEN Respond(s, Full)
          ELSE Step(s, [req[s] EXCEPT !.pc = "join_find"])
    /\ UNCHANGED <<store, io>>

JoinById_find(s) ==
    /\ req[s].pc = "join_find"
    /\ \E membership \in FindMember(req[s].room._id, req[s].user) :
         Step(s, [req[s] EXCEPT !.membership = membership,
                                !.pc = IF membership = NullMember
                                       THEN "join_create"
                                       ELSE "join_save"])
    /\ UNCHANGED <<store, io>>

JoinById_create(s) ==
    /\ req[s].pc = "join_create"
    /\ CreateMember(req[s].room._id, req[s].user, "member")
    /\ Respond(s, Joined)
    /\ UNCHANGED <<Room, Message, nextRoomId, nextMsgId, env, io>>

JoinById_save(s) ==
    /\ req[s].pc = "join_save"
    /\ IF MemberStored(req[s].membership)
       THEN Respond(s, Joined)
       ELSE Respond(s, InternalError)
    /\ UNCHANGED <<store, io>>

\* -------------------------------------------- POST /rooms/:roomId/leave
Leave_start(s) ==
    /\ Accepts(s)
    /\ \E u \in env.users, roomId \in RoomIds :
         LET room == FindById(roomId)
         IN IF room = NullRoom
            THEN Reject(s, NotFound)
            ELSE Begin(s, [Idle EXCEPT !.pc = "leave_member", !.user = u, !.room = room])
    /\ UNCHANGED <<store, io>>

\* a Leave that goes on without a membership
Leave_member_unchecked(s) ==
    /\ req[s].pc = "leave_member"
    /\ \E membership \in FindMember(req[s].room._id, req[s].user) :
         Step(s, [req[s] EXCEPT !.pc = "leave_membersInRoom",
                                !.membership = membership])
    /\ UNCHANGED <<store, io>>

\* RoomMember.findOne({ room, user })
Leave_member(s) ==
    /\ req[s].pc = "leave_member"
    /\ \E membership \in FindMember(req[s].room._id, req[s].user) :
         IF membership = NullMember
         THEN Respond(s, NotMember)
         ELSE Step(s, [req[s] EXCEPT !.pc = "leave_membersInRoom",
                                     !.membership = membership])
    /\ UNCHANGED <<store, io>>

\* membersInRoom.find(m => String(m.user) !== String(req.user.id))
FindOther(membersInRoom, u) ==
    IF \E i \in DOMAIN membersInRoom : membersInRoom[i].user # u
    THEN LET i == CHOOSE i \in DOMAIN membersInRoom :
                    /\ membersInRoom[i].user # u
                    /\ \A j \in 1..(i - 1) : membersInRoom[j].user = u
         IN membersInRoom[i]
    ELSE NullMember

\* RoomMember.find({ room }).sort({ joinedAt: 1 }) and the choice of the branch
Leave_membersInRoom(s) ==
    /\ req[s].pc = "leave_membersInRoom"
    /\ \E membersInRoom \in SortByJoinedAt(MembersOf(req[s].room._id)) :
         LET newOwnerMembership == FindOther(membersInRoom, req[s].user)
         IN IF Len(membersInRoom) = 1
            THEN Step(s, [req[s] EXCEPT !.pc = "leave_deleteMessages"])
            ELSE IF req[s].room.owner = req[s].user /\ newOwnerMembership # NullMember
            THEN Step(s, [req[s] EXCEPT !.pc = "leave_saveRoom",
                                        !.newOwnerMembership = newOwnerMembership])
            ELSE Step(s, [req[s] EXCEPT !.pc = "leave_deleteOne"])
    /\ UNCHANGED <<store, io>>

\* a last-member branch whose Message.deleteMany has no filter
Leave_deleteMessages_all(s) ==
    /\ req[s].pc = "leave_deleteMessages"
    /\ Message' = {}
    /\ Step(s, [req[s] EXCEPT !.pc = "leave_deleteMembers"])
    /\ UNCHANGED <<Room, RoomMember, nextRoomId, nextMemberId, nextMsgId, now, env, io>>

\* a last-member branch that leaves the messages of the room in place
Leave_deleteMessages_kept(s) ==
    /\ req[s].pc = "leave_deleteMessages"
    /\ Step(s, [req[s] EXCEPT !.pc = "leave_deleteMembers"])
    /\ UNCHANGED <<store, io>>

\* last member: Message.deleteMany({ room })
Leave_deleteMessages(s) ==
    /\ req[s].pc = "leave_deleteMessages"
    /\ Message' = {m \in Message : m.room # req[s].room._id}
    /\ Step(s, [req[s] EXCEPT !.pc = "leave_deleteMembers"])
    /\ UNCHANGED <<Room, RoomMember, nextRoomId, nextMemberId, nextMsgId, now, env, io>>

\* last member: RoomMember.deleteMany({ room })
Leave_deleteMembers(s) ==
    /\ req[s].pc = "leave_deleteMembers"
    /\ RoomMember' = {m \in RoomMember : m.room # req[s].room._id}
    /\ Step(s, [req[s] EXCEPT !.pc = "leave_deleteRoom"])
    /\ UNCHANGED <<Room, Message, nextRoomId, nextMemberId, nextMsgId, now, env, io>>

\* last member: Room.findByIdAndDelete, then { deleted: true }
Leave_deleteRoom(s) ==
    /\ req[s].pc = "leave_deleteRoom"
    /\ Room' = {r \in Room : r._id # req[s].room._id}
    /\ Respond(s, Deleted)
    /\ UNCHANGED <<RoomMember, Message, nextRoomId, nextMemberId, nextMsgId, now, env, io>>

\* owner leaving: room.owner = newOwnerMembership.user; room.save()
Leave_saveRoom(s) ==
    /\ req[s].pc = "leave_saveRoom"
    /\ IF RoomStored(req[s].room)
       THEN /\ Room' = {IF r._id = req[s].room._id
                        THEN [r EXCEPT !.owner = req[s].newOwnerMembership.user]
                        ELSE r : r \in Room}
            /\ Step(s, [req[s] EXCEPT !.pc = "leave_saveNewOwner",
                                      !.room.owner = req[s].newOwnerMembership.user])
       ELSE /\ Respond(s, InternalError)
            /\ UNCHANGED Room
    /\ UNCHANGED <<RoomMember, Message, nextRoomId, nextMemberId, nextMsgId, now, env, io>>

\* owner leaving: newOwnerMembership.role = "owner"; newOwnerMembership.save()
Leave_saveNewOwner(s) ==
    /\ req[s].pc = "leave_saveNewOwner"
    /\ IF MemberStored(req[s].newOwnerMembership)
       THEN /\ RoomMember' = {IF m._id = req[s].newOwnerMembership._id
                              THEN [m EXCEPT !.role = "owner"]
                              ELSE m : m \in RoomMember}
            /\ Step(s, [req[s] EXCEPT !.pc = "leave_deleteOne"])
       ELSE /\ Respond(s, InternalError)
            /\ UNCHANGED RoomMember
    /\ UNCHANGED <<Room, Message, nextRoomId, nextMemberId, nextMsgId, now, env, io>>

\* a Leave that takes the messages of the leaving user with it
Leave_deleteOne_withMessages(s) ==
    /\ req[s].pc = "leave_deleteOne"
    /\ RoomMember' = {m \in RoomMember : m._id # req[s].membership._id}
    /\ Message' = {m \in Message : m.author # req[s].user}
    /\ Respond(s, Left)
    /\ UNCHANGED <<Room, nextRoomId, nextMemberId, nextMsgId, now, env, io>>

\* a Leave that removes every membership of the leaving user's role
Leave_deleteOne_byRole(s) ==
    /\ req[s].pc = "leave_deleteOne"
    /\ RoomMember' = {m \in RoomMember : m.role # req[s].membership.role}
    /\ Respond(s, Left)
    /\ UNCHANGED <<Room, Message, nextRoomId, nextMemberId, nextMsgId, now, env, io>>

\* membership.deleteOne(), then { deleted: false, roomId, newOwnerId: room.owner }
Leave_deleteOne(s) ==
    /\ req[s].pc = "leave_deleteOne"
    /\ RoomMember' = {m \in RoomMember : m._id # req[s].membership._id}
    /\ Respond(s, Left)
    /\ UNCHANGED <<Room, Message, nextRoomId, nextMemberId, nextMsgId, now, env, io>>

\* ----------------------------------------- POST /rooms/:roomId/messages
Send_start(s) ==
    /\ Accepts(s)
    /\ \E u \in env.users, roomId \in env.roomIds, content \in env.contents :
         IF content = << >> \/ Trim(content) = << >>
         THEN Reject(s, ContentRequired)
         ELSE IF CastObjectId(roomId) = 0
         THEN Reject(s, InternalError)
         ELSE LET room == FindById(CastObjectId(roomId))
              IN IF room = NullRoom
                 THEN Reject(s, NotFound)
                 ELSE Begin(s, [Idle EXCEPT !.pc = "send_member", !.user = u,
                                            !.roomId = roomId, !.room = room,
                                            !.content = content])
    /\ UNCHANGED <<store, io>>

\* a send that does not ask for the membership
Send_member_anyone(s) ==
    /\ req[s].pc = "send_member"
    /\ Step(s, [req[s] EXCEPT !.pc = "send_create"])
    /\ UNCHANGED <<store, io>>

\* RoomMember.findOne({ room, user })
Send_member(s) ==
    /\ req[s].pc = "send_member"
    /\ \E membership \in FindMember(req[s].room._id, req[s].user) :
         IF membership = NullMember
         THEN Respond(s, Forbidden)
         ELSE Step(s, [req[s] EXCEPT !.pc = "send_create"])
    /\ UNCHANGED <<store, io>>

\* timestamps: true: createdAt is the time of the insert; the clock has
\* advanced since the latest message was created, or it has not
Timestamp ==
    IF nextMsgId > 1 /\ env.ties THEN {nextMsgId - 1, nextMsgId} ELSE {nextMsgId}

\* a send that stores the content as it was typed
Send_create_untrimmed(s) ==
    /\ req[s].pc = "send_create"
    /\ nextMsgId <= env.msgs
    /\ \E t \in Timestamp :
         LET message == [_id |-> nextMsgId, room |-> req[s].room._id,
                         author |-> req[s].user, content |-> req[s].content,
                         createdAt |-> t]
         IN /\ Message' = Message \cup {message}
            /\ Step(s, [req[s] EXCEPT !.pc = "send_populate", !.message = message])
    /\ nextMsgId' = nextMsgId + 1
    /\ UNCHANGED <<Room, RoomMember, nextRoomId, nextMemberId, now, env, io>>

\* Message.create({ room, author, content: content.trim() })
Send_create(s) ==
    /\ req[s].pc = "send_create"
    /\ nextMsgId <= env.msgs
    /\ \E t \in Timestamp :
         LET message == [_id |-> nextMsgId, room |-> req[s].room._id,
                         author |-> req[s].user, content |-> Trim(req[s].content),
                         createdAt |-> t]
         IN /\ Message' = Message \cup {message}
            /\ Step(s, [req[s] EXCEPT !.pc = "send_populate", !.message = message])
    /\ nextMsgId' = nextMsgId + 1
    /\ UNCHANGED <<Room, RoomMember, nextRoomId, nextMemberId, now, env, io>>

\* the pushes of an emit that fail: the transport of a connection can be broken
Drops(targets) == IF env.drops THEN SUBSET targets ELSE {{}}

\* emit("newMessage", { roomId, message }): one push to each of the targets
Pushed(targets, message) ==
    [c \in Conns |-> IF c \in targets THEN Append(io.inbox[c], message._id)
                                      ELSE io.inbox[c]]

\* an emit that throws when a push fails, into the catch block of the handler
Send_populate_throws(s) ==
    /\ req[s].pc = "send_populate"
    /\ \E dropped \in Drops(InRoom(req[s].roomId)) :
         IF dropped = {}
         THEN /\ io' = [io EXCEPT !.delivered = InRoom(req[s].roomId),
                                  !.dropped = {},
                                  !.inbox = Pushed(InRoom(req[s].roomId),
                                                   req[s].message)]
              /\ RespondWith(s, Sent, [NoBody EXCEPT !.message = req[s].message])
         ELSE /\ io' = [io EXCEPT !.delivered = {}, !.dropped = dropped]
              /\ Respond(s, InternalError)
    /\ UNCHANGED store

\* message.populate("author"), io.to(String(roomId)).emit, then
\* res.status(201).json({ message })
Send_populate(s) ==
    /\ req[s].pc = "send_populate"
    /\ \E dropped \in Drops(InRoom(req[s].roomId)) :
         io' = [io EXCEPT !.delivered = InRoom(req[s].roomId) \ dropped,
                          !.dropped = dropped,
                          !.inbox = Pushed(InRoom(req[s].roomId) \ dropped,
                                           req[s].message)]
    /\ RespondWith(s, Sent, [NoBody EXCEPT !.message = req[s].message])
    /\ UNCHANGED store

\* ------------------------------------------ GET /rooms/:roomId/details
Details_start(s) ==
    /\ Accepts(s)
    /\ \E u \in env.users, roomId \in env.roomIds :
         Begin(s, [Idle EXCEPT !.pc = "details_room", !.user = u, !.roomId = roomId])
    /\ UNCHANGED <<store, io>>

\* Room.findById(roomId)
Details_room(s) ==
    /\ req[s].pc = "details_room"
    /\ IF CastObjectId(req[s].roomId) = 0
       THEN Respond(s, InternalError)
       ELSE LET room == FindById(CastObjectId(req[s].roomId))
            IN IF room = NullRoom
               THEN Respond(s, NotFound)
               ELSE Step(s, [req[s] EXCEPT !.pc = "details_member", !.room = room])
    /\ UNCHANGED <<store, io>>

\* RoomMember.findOne({ room, user })
Details_member(s) ==
    /\ req[s].pc = "details_member"
    /\ \E membership \in FindMember(req[s].room._id, req[s].user) :
         IF membership = NullMember
         THEN Respond(s, Forbidden)
         ELSE Step(s, [req[s] EXCEPT !.pc = "details_members",
                                     !.membership = membership])
    /\ UNCHANGED <<store, io>>

\* a Details that lists the members in the order the store happens to return
Details_members_unsorted(s) ==
    /\ req[s].pc = "details_members"
    /\ \E members \in [1..CountDocuments(CastObjectId(req[s].roomId)) ->
                           MembersOf(CastObjectId(req[s].roomId))] :
         /\ \A i, j \in DOMAIN members : i # j => members[i] # members[j]
         /\ RespondWith(s, RoomDetails,
                        [NoBody EXCEPT !.room = req[s].room, !.members = members,
                                       !.membership = req[s].membership])
    /\ UNCHANGED <<store, io>>

\* RoomMember.find({ room }).sort({ joinedAt: 1 }).populate("user"), then
\* res.json({ room, members, membership })
Details_members(s) ==
    /\ req[s].pc = "details_members"
    /\ \E members \in SortByJoinedAt(MembersOf(CastObjectId(req[s].roomId))) :
         RespondWith(s, RoomDetails,
                     [NoBody EXCEPT !.room = req[s].room, !.members = members,
                                    !.membership = req[s].membership])
    /\ UNCHANGED <<store, io>>

\* ----------------------------------------- GET /rooms/:roomId/messages
\* .sort({ createdAt: 1 }): every order of the documents that ascends in
\* createdAt
SortByCreatedAt(S) ==
    {q \in [1..Cardinality(S) -> S] :
        /\ \A i, j \in 1..Cardinality(S) : i # j => q[i] # q[j]
        /\ \A i, j \in 1..Cardinality(S) : i < j => q[i].createdAt <= q[j].createdAt}

History_start(s) ==
    /\ Accepts(s)
    /\ \E u \in env.users, roomId \in env.roomIds :
         Begin(s, [Idle EXCEPT !.pc = "history_room", !.user = u, !.roomId = roomId])
    /\ UNCHANGED <<store, io>>

\* Room.findById(roomId)
History_room(s) ==
    /\ req[s].pc = "history_room"
    /\ IF CastObjectId(req[s].roomId) = 0
       THEN Respond(s, InternalError)
       ELSE LET room == FindById(CastObjectId(req[s].roomId))
            IN IF room = NullRoom
               THEN Respond(s, NotFound)
               ELSE Step(s, [req[s] EXCEPT !.pc = "history_member", !.room = room])
    /\ UNCHANGED <<store, io>>

\* RoomMember.findOne({ room, user })
History_member(s) ==
    /\ req[s].pc = "history_member"
    /\ \E membership \in FindMember(req[s].room._id, req[s].user) :
         IF membership = NullMember
         THEN Respond(s, Forbidden)
         ELSE Step(s, [req[s] EXCEPT !.pc = "history_messages",
                                     !.membership = membership])
    /\ UNCHANGED <<store, io>>

\* a history in the order the store happens to return
History_messages_unsorted(s) ==
    /\ req[s].pc = "history_messages"
    /\ \E messages \in [1..Cardinality(MessagesOf(CastObjectId(req[s].roomId))) ->
                            MessagesOf(CastObjectId(req[s].roomId))] :
         /\ \A i, j \in DOMAIN messages : i # j => messages[i] # messages[j]
         /\ RespondWith(s, RoomMessages, [NoBody EXCEPT !.messages = messages])
    /\ UNCHANGED <<store, io>>

\* Message.find({ room }).sort({ createdAt: 1 }).populate("author"), then
\* res.json({ messages })
History_messages(s) ==
    /\ req[s].pc = "history_messages"
    /\ \E messages \in SortByCreatedAt(MessagesOf(CastObjectId(req[s].roomId))) :
         RespondWith(s, RoomMessages, [NoBody EXCEPT !.messages = messages])
    /\ UNCHANGED <<store, io>>

\* ------------------------------------------------ PATCH /rooms/:roomId
\* renameRoomSchema.safeParse(req.body): name is a string of at least 1 character
Rename_start(s) ==
    /\ Accepts(s)
    /\ \E u \in env.users, roomId \in env.roomIds, name \in env.renames :
         IF name = ""
         THEN Reject(s, InvalidRoomData)
         ELSE Begin(s, [Idle EXCEPT !.pc = "rename_room", !.user = u,
                                    !.roomId = roomId, !.name = name])
    /\ UNCHANGED <<store, io>>

\* a Rename that asks the membership for the role instead of the room for its owner
Rename_room_byRole(s) ==
    /\ req[s].pc = "rename_room"
    /\ LET room == FindById(CastObjectId(req[s].roomId))
       IN IF room = NullRoom
          THEN Respond(s, NotFound)
          ELSE IF \E m \in MembersOf(room._id) : m.user = req[s].user /\ m.role = "owner"
          THEN Step(s, [req[s] EXCEPT !.pc = "rename_save", !.room = room])
          ELSE Respond(s, OnlyCreator)
    /\ UNCHANGED <<store, io>>

\* Room.findById(roomId) and String(room.owner) !== String(req.user.id)
Rename_room(s) ==
    /\ req[s].pc = "rename_room"
    /\ IF CastObjectId(req[s].roomId) = 0
       THEN Respond(s, InternalError)
       ELSE LET room == FindById(CastObjectId(req[s].roomId))
            IN IF room = NullRoom
               THEN Respond(s, NotFound)
               ELSE IF room.owner # req[s].user
               THEN Respond(s, OnlyCreator)
               ELSE Step(s, [req[s] EXCEPT !.pc = "rename_save", !.room = room])
    /\ UNCHANGED <<store, io>>

\* room.name = name; room.save(): the modified path is written to the document
Rename_save(s) ==
    /\ req[s].pc = "rename_save"
    /\ IF RoomStored(req[s].room)
       THEN /\ Room' = {IF r._id = req[s].room._id
                        THEN [r EXCEPT !.name = req[s].name]
                        ELSE r : r \in Room}
            /\ Respond(s, Renamed)
       ELSE /\ Respond(s, InternalError)
            /\ UNCHANGED Room
    /\ UNCHANGED <<RoomMember, Message, nextRoomId, nextMemberId, nextMsgId, now, env, io>>

\* ----------------------------------------------------- io.on("connection")
Connection(c) ==
    /\ ~io.sockets[c].open
    /\ io' = [io EXCEPT !.sockets[c] = [open |-> TRUE, rooms |-> {}, was |-> {}]]
    /\ resp' = ""
    /\ body' = NoBody
    /\ UNCHANGED <<store, req>>

\* a joinRoom that pushes the messages stored in the room to the socket
JoinRoom_replay(c) ==
    /\ io.sockets[c].open
    /\ \E roomId \in env.joinRoom :
         IF roomId = ""
         THEN io' = io
         ELSE io' = [io EXCEPT
                       !.sockets[c].rooms = @ \cup {roomId},
                       !.inbox[c] =
                          IF \E m \in Message : m.room = CastObjectId(roomId)
                          THEN Append(@, (CHOOSE m \in Message :
                                            m.room = CastObjectId(roomId))._id)
                          ELSE @]
    /\ resp' = ""
    /\ body' = NoBody
    /\ UNCHANGED <<store, req>>

\* socket.on("joinRoom"): if (roomId) socket.join(String(roomId))
JoinRoom(c) ==
    /\ io.sockets[c].open
    /\ \E roomId \in env.joinRoom :
         IF roomId = ""
         THEN io' = io
         ELSE io' = [io EXCEPT !.sockets[c].rooms = @ \cup {roomId}]
    /\ resp' = ""
    /\ body' = NoBody
    /\ UNCHANGED <<store, req>>

\* a disconnect after which the socket is still in its rooms
Disconnect_keepRooms(c) ==
    /\ io.sockets[c].open
    /\ io' = [io EXCEPT !.sockets[c] = [@ EXCEPT !.open = FALSE, !.was = @ \cup
                                                  io.sockets[c].rooms]]
    /\ resp' = ""
    /\ body' = NoBody
    /\ UNCHANGED <<store, req>>

\* socket.on("disconnect"): the socket has left every room
Disconnect(c) ==
    /\ io.sockets[c].open
    /\ io' = [io EXCEPT !.sockets[c] =
                 [open |-> FALSE, rooms |-> {}, was |-> io.sockets[c].rooms]]
    /\ resp' = ""
    /\ body' = NoBody
    /\ UNCHANGED <<store, req>>

\* ------------------------------------------------------------------ Next
Next ==
    \E s \in Slots :
        \/ Create_start(s)
        \/ generateRoomCode(s)
        \/ Create_room(s)
        \/ Create_member(s)
        \/ JoinByCode_start(s)
        \/ JoinByCode_count(s)
        \/ JoinByCode_find(s)
        \/ JoinByCode_create(s)
        \/ JoinByCode_save(s)
        \/ JoinById_start(s)
        \/ JoinById_count(s)
        \/ JoinById_find(s)
        \/ JoinById_create(s)
        \/ JoinById_save(s)
        \/ Leave_start(s)
        \/ Leave_member(s)
        \/ Leave_membersInRoom(s)
        \/ Leave_deleteMessages(s)
        \/ Leave_deleteMembers(s)
        \/ Leave_deleteRoom(s)
        \/ Leave_saveRoom(s)
        \/ Leave_saveNewOwner(s)
        \/ Leave_deleteOne(s)
        \/ Send_start(s)
        \/ Send_member(s)
        \/ Send_create(s)
        \/ Send_populate(s)

\* three users around one room
Spec == Init /\ [][Next]_vars

\* two users and several rooms: the handlers that write the rooms collection,
\* and the join that gives a room a second member
NextRooms ==
    \E s \in Slots :
        \/ Create_start(s)
        \/ generateRoomCode(s)
        \/ Create_room(s)
        \/ Create_member(s)
        \/ JoinById_start(s)
        \/ JoinById_count(s)
        \/ JoinById_find(s)
        \/ JoinById_create(s)
        \/ JoinById_save(s)
        \/ Leave_start(s)
        \/ Leave_member(s)
        \/ Leave_membersInRoom(s)
        \/ Leave_deleteMessages(s)
        \/ Leave_deleteMembers(s)
        \/ Leave_deleteRoom(s)
        \/ Leave_saveRoom(s)
        \/ Leave_saveNewOwner(s)
        \/ Leave_deleteOne(s)

SpecRooms == InitRooms /\ [][NextRooms]_vars

\* A room that u1 created without maxMembers, that u2, or u2 and then u3,
\* joined and where u2 sent a message; from here the users only leave.
InitLeave ==
    /\ env = OneRoom
    /\ Room = {[_id |-> 1, name |-> "Test", roomCode |-> FirstCode, owner |-> "u1",
                maxMembers |-> DefaultMaxMembers]}
    /\ \E n \in 2..Cardinality(Users) :
         /\ RoomMember =
              {m \in {[_id |-> 1, room |-> 1, user |-> "u1", role |-> "owner",
                       joinedAt |-> 1],
                      [_id |-> 2, room |-> 1, user |-> "u2", role |-> "member",
                       joinedAt |-> 2],
                      [_id |-> 3, room |-> 1, user |-> "u3", role |-> "member",
                       joinedAt |-> 3]} : m._id <= n}
         /\ nextMemberId = n + 1
         /\ now = n
    /\ Message = {[_id |-> 1, room |-> 1, author |-> "u2", content |-> <<"h">>,
                 createdAt |-> 1]}
    /\ nextRoomId = 2
    /\ nextMsgId = 2
    /\ req = [s \in Slots |-> Idle]
    /\ resp = ""
    /\ io = NoSockets
    /\ body = NoBody

NextLeave ==
    \E s \in Slots :
        \/ Leave_start(s)
        \/ Leave_member(s)
        \/ Leave_membersInRoom(s)
        \/ Leave_deleteMessages(s)
        \/ Leave_deleteMembers(s)
        \/ Leave_deleteRoom(s)
        \/ Leave_saveRoom(s)
        \/ Leave_saveNewOwner(s)
        \/ Leave_deleteOne(s)

SpecLeave == InitLeave /\ [][NextLeave]_vars

\* A room that u1 created without maxMembers and that u2 and u3 joined, in
\* either order, within the same millisecond or not; from here the users leave.
InitSuccession ==
    /\ env = SameMillisecond
    /\ Room = {[_id |-> 1, name |-> "Test", roomCode |-> FirstCode, owner |-> "u1",
                maxMembers |-> DefaultMaxMembers]}
    /\ \E first \in {"u2", "u3"}, t \in {2, 3} :
         /\ RoomMember =
              {[_id |-> 1, room |-> 1, user |-> "u1", role |-> "owner", joinedAt |-> 1],
               [_id |-> 2, room |-> 1, user |-> first, role |-> "member",
                joinedAt |-> 2],
               [_id |-> 3, room |-> 1, user |-> CHOOSE u \in {"u2", "u3"} : u # first,
                role |-> "member", joinedAt |-> t]}
         /\ now = t
    /\ Message = {}
    /\ nextRoomId = 2
    /\ nextMemberId = 4
    /\ nextMsgId = 1
    /\ req = [s \in Slots |-> Idle]
    /\ resp = ""
    /\ io = NoSockets
    /\ body = NoBody

SpecSuccession == InitSuccession /\ [][NextLeave]_vars

\* The room is created, joined by code, written to, left and asked about.
InitDetails == Start(TwoUsers)

NextDetails ==
    \E s \in Slots :
        \/ Create_start(s)
        \/ generateRoomCode(s)
        \/ Create_room(s)
        \/ Create_member(s)
        \/ JoinByCode_start(s)
        \/ JoinByCode_count(s)
        \/ JoinByCode_find(s)
        \/ JoinByCode_create(s)
        \/ JoinByCode_save(s)
        \/ Leave_start(s)
        \/ Leave_member(s)
        \/ Leave_membersInRoom(s)
        \/ Leave_deleteMessages(s)
        \/ Leave_deleteMembers(s)
        \/ Leave_deleteRoom(s)
        \/ Leave_saveRoom(s)
        \/ Leave_saveNewOwner(s)
        \/ Leave_deleteOne(s)
        \/ Send_start(s)
        \/ Send_member(s)
        \/ Send_create(s)
        \/ Send_populate(s)
        \/ Details_start(s)
        \/ Details_room(s)
        \/ Details_member(s)
        \/ Details_members(s)

SpecDetails == InitDetails /\ [][NextDetails]_vars

\* Two rooms that u1 created; from here u1 sends messages while connections
\* open, subscribe and close.
InitFanout ==
    /\ env = Fanout
    /\ Room = {[_id |-> 1, name |-> "Test", roomCode |-> FirstCode, owner |-> "u1",
                maxMembers |-> 2],
               [_id |-> 2, name |-> "Test",
                roomCode |-> [i \in 1..CodeLength |-> characters[2]], owner |-> "u1",
                maxMembers |-> 2]}
    /\ RoomMember =
         {[_id |-> 1, room |-> 1, user |-> "u1", role |-> "owner", joinedAt |-> 1],
          [_id |-> 2, room |-> 2, user |-> "u1", role |-> "owner", joinedAt |-> 2]}
    /\ Message = {}
    /\ nextRoomId = 3
    /\ nextMemberId = 3
    /\ nextMsgId = 1
    /\ now = 2
    /\ req = [s \in Slots |-> Idle]
    /\ resp = ""
    /\ io = NoSockets
    /\ body = NoBody

NextFanout ==
    \/ \E s \in Slots :
          \/ Send_start(s)
          \/ Send_member(s)
          \/ Send_create(s)
          \/ Send_populate(s)
    \/ \E c \in Conns :
          \/ Connection(c)
          \/ JoinRoom(c)
          \/ Disconnect(c)

SpecFanout == InitFanout /\ [][NextFanout]_vars

\* Rooms are created, joined by id and written to, over a store that can fail.
InitCreate == Start(Faulty)

NextCreate ==
    \E s \in Slots :
        \/ Create_start(s)
        \/ generateRoomCode(s)
        \/ Create_room(s)
        \/ Create_member(s)
        \/ JoinById_start(s)
        \/ JoinById_count(s)
        \/ JoinById_find(s)
        \/ JoinById_create(s)
        \/ JoinById_save(s)
        \/ Send_start(s)
        \/ Send_member(s)
        \/ Send_create(s)
        \/ Send_populate(s)

SpecCreate == InitCreate /\ [][NextCreate]_vars

\* The room is created, joined by code and by id, and left.
NextJoins ==
    \E s \in Slots :
        \/ Create_start(s)
        \/ generateRoomCode(s)
        \/ Create_room(s)
        \/ Create_member(s)
        \/ JoinByCode_start(s)
        \/ JoinByCode_count(s)
        \/ JoinByCode_find(s)
        \/ JoinByCode_create(s)
        \/ JoinByCode_save(s)
        \/ JoinById_start(s)
        \/ JoinById_count(s)
        \/ JoinById_find(s)
        \/ JoinById_create(s)
        \/ JoinById_save(s)
        \/ Leave_start(s)
        \/ Leave_member(s)
        \/ Leave_membersInRoom(s)
        \/ Leave_deleteMessages(s)
        \/ Leave_deleteMembers(s)
        \/ Leave_deleteRoom(s)
        \/ Leave_saveRoom(s)
        \/ Leave_saveNewOwner(s)
        \/ Leave_deleteOne(s)

SpecJoins == InitDetails /\ [][NextJoins]_vars

\* A room that u1 created and u2 joined, with a message of u2 in it; from here
\* the three users leave the room and rename it.
InitRename ==
    /\ env = Renaming
    /\ Room = {[_id |-> 1, name |-> "Test", roomCode |-> FirstCode, owner |-> "u1",
                maxMembers |-> 2]}
    /\ RoomMember =
         {[_id |-> 1, room |-> 1, user |-> "u1", role |-> "owner", joinedAt |-> 1],
          [_id |-> 2, room |-> 1, user |-> "u2", role |-> "member", joinedAt |-> 2]}
    /\ Message = {[_id |-> 1, room |-> 1, author |-> "u2", content |-> <<"h">>,
                 createdAt |-> 1]}
    /\ nextRoomId = 2
    /\ nextMemberId = 3
    /\ nextMsgId = 2
    /\ now = 2
    /\ req = [s \in Slots |-> Idle]
    /\ resp = ""
    /\ io = NoSockets
    /\ body = NoBody

NextRename ==
    \E s \in Slots :
        \/ Leave_start(s)
        \/ Leave_member(s)
        \/ Leave_membersInRoom(s)
        \/ Leave_deleteMessages(s)
        \/ Leave_deleteMembers(s)
        \/ Leave_deleteRoom(s)
        \/ Leave_saveRoom(s)
        \/ Leave_saveNewOwner(s)
        \/ Leave_deleteOne(s)
        \/ Rename_start(s)
        \/ Rename_room(s)
        \/ Rename_save(s)

SpecRename == InitRename /\ [][NextRename]_vars

\* A room that u1 created; from here u1 and u2 send it messages while
\* connections open, subscribe and close.
InitChat ==
    /\ env = Chat
    /\ Room = {[_id |-> 1, name |-> "Test", roomCode |-> FirstCode, owner |-> "u1",
                maxMembers |-> 2]}
    /\ RoomMember =
         {[_id |-> 1, room |-> 1, user |-> "u1", role |-> "owner", joinedAt |-> 1]}
    /\ Message = {}
    /\ nextRoomId = 2
    /\ nextMemberId = 2
    /\ nextMsgId = 1
    /\ now = 1
    /\ req = [s \in Slots |-> Idle]
    /\ resp = ""
    /\ io = NoSockets
    /\ body = NoBody

SpecChat == InitChat /\ [][NextFanout]_vars

\* Rooms are created while the codes run out; a handler that
\* can take its next step takes it in the end (the event loop runs every
\* continuation whose store call has returned), while no client has to send
\* a request.
NextGenerate ==
    \E s \in Slots :
        \/ Create_start(s)
        \/ generateRoomCode(s)
        \/ Create_room(s)
        \/ Create_member(s)

FairGenerate ==
    /\ InitRooms
    /\ [][NextGenerate]_vars
    /\ \A s \in Slots :
         /\ WF_vars(generateRoomCode(s))
         /\ WF_vars(Create_room(s))
         /\ WF_vars(Create_member(s))

\* A room that u1 created; from here u1 sends it two messages while
\* connections open, subscribe and close.
InitInbox ==
    /\ env = Pushing
    /\ Room = {[_id |-> 1, name |-> "Test", roomCode |-> FirstCode, owner |-> "u1",
                maxMembers |-> 2]}
    /\ RoomMember =
         {[_id |-> 1, room |-> 1, user |-> "u1", role |-> "owner", joinedAt |-> 1]}
    /\ Message = {}
    /\ nextRoomId = 2
    /\ nextMemberId = 2
    /\ nextMsgId = 1
    /\ now = 1
    /\ req = [s \in Slots |-> Idle]
    /\ resp = ""
    /\ io = NoSockets
    /\ body = NoBody

SpecInbox == InitInbox /\ [][NextFanout]_vars

\* A room that u1 created and u2 joined, with no message yet and one
\* connection subscribed to it; from here the two write to it, read its
\* messages and leave it.
InitHistory ==
    /\ env = Reading
    /\ Room = {[_id |-> 1, name |-> "Test", roomCode |-> FirstCode, owner |-> "u1",
                maxMembers |-> 2]}
    /\ RoomMember =
         {[_id |-> 1, room |-> 1, user |-> "u1", role |-> "owner", joinedAt |-> 1],
          [_id |-> 2, room |-> 1, user |-> "u2", role |-> "member", joinedAt |-> 2]}
    /\ Message = {}
    /\ nextRoomId = 2
    /\ nextMemberId = 3
    /\ nextMsgId = 1
    /\ now = 2
    /\ req = [s \in Slots |-> Idle]
    /\ resp = ""
    /\ io = [NoSockets EXCEPT
               !.sockets["c1"] = [open |-> TRUE, rooms |-> {ToHexString(1)}, was |-> {}]]
    /\ body = NoBody

NextHistory ==
    \E s \in Slots :
          \/ Send_start(s)
          \/ Send_member(s)
          \/ Send_create(s)
          \/ Send_populate(s)
          \/ History_start(s)
          \/ History_room(s)
          \/ History_member(s)
          \/ History_messages(s)
          \/ Leave_start(s)
          \/ Leave_member(s)
          \/ Leave_membersInRoom(s)
          \/ Leave_deleteMessages(s)
          \/ Leave_deleteMembers(s)
          \/ Leave_deleteRoom(s)
          \/ Leave_saveRoom(s)
          \/ Leave_saveNewOwner(s)
          \/ Leave_deleteOne(s)

SpecHistory == InitHistory /\ [][NextHistory]_vars

\* Room 1 of u1 and room 2 of u2, which holds a message of u2; one connection
\* is subscribed to each. From here the rooms are joined, left, renamed and
\* written to.
InitTwoRooms ==
    /\ env = TwoRooms
    /\ Room = {[_id |-> 1, name |-> "Test", roomCode |-> FirstCode, owner |-> "u1",
                maxMembers |-> 2],
               [_id |-> 2, name |-> "Test",
                roomCode |-> [i \in 1..CodeLength |-> characters[2]], owner |-> "u2",
                maxMembers |-> 2]}
    /\ RoomMember =
         {[_id |-> 1, room |-> 1, user |-> "u1", role |-> "owner", joinedAt |-> 1],
          [_id |-> 2, room |-> 2, user |-> "u2", role |-> "owner", joinedAt |-> 2]}
    /\ Message = {[_id |-> 1, room |-> 2, author |-> "u2", content |-> <<"h">>,
                 createdAt |-> 1]}
    /\ nextRoomId = 3
    /\ nextMemberId = 3
    /\ nextMsgId = 2
    /\ now = 2
    /\ req = [s \in Slots |-> Idle]
    /\ resp = ""
    /\ io = [NoSockets EXCEPT
               !.sockets["c1"] = [open |-> TRUE, rooms |-> {ToHexString(1)}, was |-> {}],
               !.sockets["c2"] = [open |-> TRUE, rooms |-> {ToHexString(2)}, was |-> {}]]
    /\ body = NoBody

NextTwoRooms ==
    \E s \in Slots :
        \/ JoinById_start(s)
        \/ JoinById_count(s)
        \/ JoinById_find(s)
        \/ JoinById_create(s)
        \/ JoinById_save(s)
        \/ Leave_start(s)
        \/ Leave_member(s)
        \/ Leave_membersInRoom(s)
        \/ Leave_deleteMessages(s)
        \/ Leave_deleteMembers(s)
        \/ Leave_deleteRoom(s)
        \/ Leave_saveRoom(s)
        \/ Leave_saveNewOwner(s)
        \/ Leave_deleteOne(s)
        \/ Rename_start(s)
        \/ Rename_room(s)
        \/ Rename_save(s)
        \/ Send_start(s)
        \/ Send_member(s)
        \/ Send_create(s)
        \/ Send_populate(s)

SpecTwoRooms == InitTwoRooms /\ [][NextTwoRooms]_vars

\* Rooms are created with every kind of maxMembers.
InitCapacity == Start(Capacities)

SpecCapacity == InitCapacity /\ [][NextGenerate]_vars

\* ---------------------------------------------------------------- claims
RoomExists(id) == \E r \in Room : r._id = id
Owners(id) == {m \in MembersOf(id) : m.role = "owner"}
IsMember(id, u) == \E m \in RoomMember : m.room = id /\ m.user = u
JoinPcs ==
    {"joinByCode_count", "joinByCode_find", "joinByCode_create", "joinByCode_save",
     "join_count", "join_find", "join_create", "join_save"}

\* C1: in every reachable state, also between the store calls of a handler,
\* each existing room has exactly one RoomMember document with role owner, and
\* its user is Room.owner.
C1_SingleOwner ==
    \A r \in Room :
        /\ Cardinality(Owners(r._id)) = 1
        /\ \A m \in Owners(r._id) : m.user = r.owner

\* C2: whenever no request is in flight, a room id has no RoomMember document
\* if and only if it has no Room document.
C2_NoOrphan ==
    Quiescent => \A id \in RoomIds : (CountDocuments(id) = 0) <=> ~RoomExists(id)

\* C3: a Leave deletes the messages, the memberships and the room only when
\* every membership left in the room is the leaving user's.
C3_DeletedByLastMember ==
    [][\A s \in Slots :
          (/\ req[s].pc \in {"leave_deleteMessages", "leave_deleteMembers",
                             "leave_deleteRoom"}
           /\ req'[s].pc # req[s].pc)
          => \A m \in MembersOf(req[s].room._id) : m.user = req[s].user]_vars

\* C4: once the overlapping Leave calls have completed, the owner of a room
\* that still has members is one of its members.
C4_OwnerIsMember ==
    Quiescent => \A r \in Room : MembersOf(r._id) # {} => IsMember(r._id, r.owner)

\* C5: once the overlapping Leave calls of the last members have completed and
\* no membership is left, the room and its messages are gone.
C5_LastLeavesDelete ==
    Quiescent =>
        \A id \in RoomIds :
            MembersOf(id) = {} => ~RoomExists(id) /\ MessagesOf(id) = {}

\* C6: no two existing rooms have the same roomCode, however the Create calls
\* interleave.
C6_UniqueCodes ==
    \A r1, r2 \in Room : r1.roomCode = r2.roomCode => r1._id = r2._id

\* C6, its case: two Create calls drew the same free code; one has inserted its
\* room and the other is about to insert.
C6_Witness ==
    \E s, t \in Slots :
        /\ req[s].pc = "create_member"
        /\ req[t].pc = "create_room"
        /\ req[t].roomCode = req[s].room.roomCode
        /\ RoomStored(req[s].room)

\* C7: while every membership of a room belongs to a different user (the joins
\* are by distinct users), the RoomMember documents of the room never outnumber
\* its maxMembers.
C7_Capacity ==
    \A r \in Room :
        (\A m1, m2 \in MembersOf(r._id) : m1.user = m2.user => m1 = m2)
            => CountDocuments(r._id) <= r.maxMembers

\* C8: a join that no other request overlaps answers "Room is full" if and
\* only if the room has exactly maxMembers memberships, and then changes
\* nothing.
C8_FullIffAtCapacity ==
    [][\A s \in Slots :
          (/\ req[s].pc \in {"joinByCode_count", "join_count"}
           /\ req[s].solo
           /\ req'[s].pc # req[s].pc)
          => /\ (resp' = Full) <=>
                    (CountDocuments(req[s].room._id) = req[s].room.maxMembers)
             /\ resp' = Full => UNCHANGED store]_vars

\* C9: a join, overlapped by no other request, of a user who is already a
\* member answers with that user's membership and leaves the rooms and the
\* memberships as they were.
C9_JoinIdempotent ==
    [][\A s \in Slots :
          (/\ req[s].pc \in JoinPcs
           /\ req[s].solo
           /\ IsMember(req[s].room._id, req[s].user)
           /\ req'[s].pc = "idle")
          => /\ resp' = Joined
             /\ req[s].membership \in RoomMember
             /\ req[s].membership.user = req[s].user
             /\ UNCHANGED <<Room, RoomMember>>]_vars

\* C10: a join of a user who holds a membership in the room is never answered
\* with an error, whatever the number of members.
C10_MemberNeverRejected ==
    [][\A s \in Slots :
          (/\ req[s].pc \in JoinPcs
           /\ RoomStored(req[s].room)
           /\ IsMember(req[s].room._id, req[s].user)
           /\ req'[s].pc = "idle")
          => resp' = Joined]_vars

\* C11: in every reachable state a user holds at most one RoomMember document
\* of a room, also when the joins of that user interleave.
C11_OneMembershipPerUser ==
    \A m1, m2 \in RoomMember :
        m1.room = m2.room /\ m1.user = m2.user => m1._id = m2._id

\* the member of S who joined first, the lower _id first among those who joined
\* within the same millisecond
Earliest(S) ==
    CHOOSE m \in S :
        \A n \in S : \/ m.joinedAt < n.joinedAt
                      \/ (m.joinedAt = n.joinedAt /\ m._id <= n._id)

\* C12: when the owner leaves, overlapped by no other request, a room with at
\* least two other members, the successor it picks is the remaining member
\* with the earliest joinedAt, the lower _id first among equal joinedAt.
C12_EarliestSucceeds ==
    [][\A s \in Slots :
          LET others == {m \in MembersOf(req[s].room._id) : m.user # req[s].user}
          IN (/\ req[s].pc = "leave_membersInRoom"
              /\ req[s].solo
              /\ req[s].room.owner = req[s].user
              /\ Cardinality(others) >= 2
              /\ req'[s].pc # req[s].pc)
             => /\ req'[s].pc = "leave_saveRoom"
                /\ req'[s].newOwnerMembership = Earliest(others)]_vars

\* a room id that was given to a room which is no longer stored
Gone(id) == id \in RoomIds /\ id < nextRoomId /\ ~RoomExists(id)

\* C13: when the Leave of the sole member of a room, overlapped by no other
\* request, completes, it reports the deletion and the room, its memberships
\* and its messages are no longer stored; a room that is gone stays gone, and
\* every Details call that looks it up answers "Room not found".
C13_GoneAfterLastLeave ==
    [][/\ \A s \in Slots :
            (/\ req[s].pc = "leave_deleteRoom"
             /\ req[s].solo
             /\ req'[s].pc = "idle")
            => /\ resp' = Deleted
               /\ \A r \in Room' : r._id # req[s].room._id
               /\ \A m \in RoomMember' : m.room # req[s].room._id
               /\ \A m \in Message' : m.room # req[s].room._id
       /\ \A id \in RoomIds : Gone(id) => \A r \in Room' : r._id # id
       /\ \A s \in Slots :
            (/\ req[s].pc = "details_room"
             /\ Gone(CastObjectId(req[s].roomId))
             /\ req'[s].pc # req[s].pc)
            => resp' = NotFound]_vars

\* C13, its case: a Details call is about to look up a room that is gone.
C13_DetailsOfGoneRoom ==
    \E s \in Slots :
        /\ req[s].pc = "details_room"
        /\ Gone(CastObjectId(req[s].roomId))

\* the open connections that subscribed to the room of that id
Subscribers(id) ==
    {c \in Conns : /\ io.sockets[c].open
                   /\ \E name \in io.sockets[c].rooms : CastObjectId(name) = id}

\* C14: the emit of a message sent to a room delivers it to exactly the
\* connections subscribed to that room at that time, to none when there is
\* none, and the call succeeds.
C14_DeliveredToSubscribers ==
    [][\A s \in Slots :
          (req[s].pc = "send_populate" /\ req'[s].pc = "idle")
          => /\ resp' = Sent
             /\ io'.delivered = Subscribers(req[s].room._id)]_vars

\* C15: when the RoomMember.create of a Create fails after its Room was
\* stored, the caller gets a failure and the Room is no longer stored.
C15_NoOwnerlessRoom ==
    [][\A s \in Slots :
          (/\ req[s].pc = "create_member"
           /\ req'[s].pc = "idle"
           /\ RoomMember' = RoomMember)
          => /\ resp' = InternalError
             /\ \A r \in Room' : r._id # req[s].room._id]_vars

\* C16: a Create that succeeds stores exactly one new Room, whose owner is the
\* caller, and exactly one new RoomMember (that room, the caller, role owner),
\* and changes no other room, membership or message; when no other request
\* overlaps it, the new room has one membership when it answers.
C16_CreateAddsRoomAndOwner ==
    [][\A s \in Slots :
          /\ (req[s].pc = "create_room" /\ req'[s].pc = "create_member")
             => /\ \E r \in Room' :
                     /\ ~RoomExists(r._id)
                     /\ Room' = Room \cup {r}
                     /\ r.owner = req[s].user
                     /\ r = req'[s].room
                /\ UNCHANGED <<RoomMember, Message>>
          /\ (req[s].pc = "create_member" /\ req'[s].pc = "idle" /\ resp' = Created)
             => /\ \E m \in RoomMember' :
                     /\ m \notin RoomMember
                     /\ RoomMember' = RoomMember \cup {m}
                     /\ m.room = req[s].room._id
                     /\ m.user = req[s].user
                     /\ m.role = "owner"
                /\ UNCHANGED <<Room, Message>>
                /\ req[s].solo =>
                     Cardinality({m \in RoomMember' : m.room = req[s].room._id}) = 1]_vars

\* C16, its case: a second room has just been created, by a Create that
\* nothing overlapped, next to a room that holds a message.
C16_SecondRoomCreated ==
    /\ resp = Created
    /\ Quiescent
    /\ Cardinality(Room) = 2
    /\ Message # {}
    /\ \A r \in Room : CountDocuments(r._id) = 1

\* the rooms that a code typed by a client denotes
Matching(roomCode) == {r \in Room : r.roomCode = ToUpperCase(Trim(roomCode))}

ById(s) ==
    JoinById_count(s) \/ JoinById_find(s) \/ JoinById_create(s) \/ JoinById_save(s)
ByCode(s) ==
    \/ JoinByCode_count(s) \/ JoinByCode_find(s)
    \/ JoinByCode_create(s) \/ JoinByCode_save(s)
ByIdPc == <<"join_count", "join_find", "join_create", "join_save", "idle">>
ByCodePc ==
    <<"joinByCode_count", "joinByCode_find", "joinByCode_create", "joinByCode_save",
      "idle">>

\* a join by id in slot s and a join by code in slot t, of the same user for
\* the same room, at the same point of their handlers with the same locals
Twins(s, t) ==
    /\ s # t
    /\ \E k \in 1..4 : req[s].pc = ByIdPc[k] /\ req[t].pc = ByCodePc[k]
    /\ req[s].user = req[t].user
    /\ req[s].room = req[t].room
    /\ req[s].membership = req[t].membership

\* what a step of a join can answer, store and do next
Answers == {"", NotFound, Full, Joined, InternalError}
Stores ==
    {RoomMember} \cup
    {RoomMember \cup {[_id |-> nextMemberId, room |-> id, user |-> u, role |-> role,
                       joinedAt |-> t]} :
        id \in RoomIds, u \in Users, role \in {"owner", "member"},
        t \in {now, now + 1}}
Memberships == RoomMember \cup {NullMember}

\* C18: JoinById with the id of a room and JoinByCode with its code have the
\* same outcome and leave the same store: from any state, the two handlers
\* start for the same rooms, and each step of one answers, stores and goes on
\* exactly as the same step of the other.
C18_SameJoin ==
    /\ \A s \in Slots :
         Accepts(s) =>
            \A u \in Users, r \in Room :
                (ENABLED (/\ JoinById_start(s)
                          /\ req'[s].pc = "join_count"
                          /\ req'[s].user = u
                          /\ req'[s].room = r))
                <=> (ENABLED (/\ JoinByCode_start(s)
                              /\ req'[s].pc = "joinByCode_count"
                              /\ req'[s].user = u
                              /\ req'[s].room = r))
    /\ \A s, t \in Slots :
         Twins(s, t) =>
            /\ \A b \in Answers, X \in Stores, k \in 1..5, m \in Memberships :
                 (ENABLED (/\ ById(s)
                           /\ resp' = b
                           /\ RoomMember' = X
                           /\ req'[s].pc = ByIdPc[k]
                           /\ req'[s].membership = m))
                 <=> (ENABLED (/\ ByCode(t)
                               /\ resp' = b
                               /\ RoomMember' = X
                               /\ req'[t].pc = ByCodePc[k]
                               /\ req'[t].membership = m))
            /\ ~ENABLED (/\ ById(s)
                         /\ \/ resp' \notin Answers
                            \/ RoomMember' \notin Stores
                            \/ Room' # Room
                            \/ Message' # Message)
            /\ ~ENABLED (/\ ByCode(t)
                         /\ \/ resp' \notin Answers
                            \/ RoomMember' \notin Stores
                            \/ Room' # Room
                            \/ Message' # Message)

\* C18, its case: a join by id and a join by code of the same user stand before
\* the capacity check of a room that is full.
C18_TwinsAtCapacity ==
    \E s, t \in Slots :
        /\ Twins(s, t)
        /\ req[s].pc = "join_count"
        /\ RoomStored(req[s].room)
        /\ CountDocuments(req[s].room._id) = req[s].room.maxMembers

\* C19: a Leave of a user who holds no membership in the room it found answers
\* "You are not a member of this room" and changes no room, membership or
\* message.
C19_LeaveOfNonMember ==
    [][\A s \in Slots :
          (/\ req[s].pc = "leave_member"
           /\ ~IsMember(req[s].room._id, req[s].user)
           /\ req'[s].pc # req[s].pc)
          => /\ resp' = NotMember
             /\ req'[s].pc = "idle"
             /\ UNCHANGED store]_vars

\* C19, its case: a Leave has found the room and is about to look for the
\* membership of a user who has none.
C19_NonMemberLeaving ==
    \E s \in Slots :
        /\ req[s].pc = "leave_member"
        /\ RoomStored(req[s].room)
        /\ ~IsMember(req[s].room._id, req[s].user)

\* C20: when a member who is not the owner leaves, overlapped by no other
\* request, a room that has other members, only the membership of that user
\* is removed: the room, its owner, every other membership and every message
\* stay as they were, and the answer reports that the room was not deleted.
C20_OnlyOwnMembershipRemoved ==
    [][\A s \in Slots :
          (/\ req[s].pc \in {"leave_membersInRoom", "leave_deleteOne"}
           /\ req[s].solo
           /\ req[s].room.owner # req[s].user
           /\ CountDocuments(req[s].room._id) >= 2
           /\ req'[s].pc # req[s].pc)
          => IF req[s].pc = "leave_membersInRoom"
             THEN req'[s].pc = "leave_deleteOne" /\ UNCHANGED store
             ELSE /\ resp' = Left
                  /\ req[s].membership \in RoomMember
                  /\ req[s].membership.user = req[s].user
                  /\ RoomMember' = RoomMember \ {req[s].membership}
                  /\ UNCHANGED <<Room, Message>>]_vars

\* C20, its case: a member who is not the owner has just left, overlapped by
\* no other request, a room of three; the owner and the other member remain.
C20_MemberHasLeft ==
    /\ resp = Left
    /\ Quiescent
    /\ \E r \in Room :
         /\ r.owner = "u1"
         /\ {m.user : m \in MembersOf(r._id)} = {"u1", "u3"}
         /\ Owners(r._id) = {m \in MembersOf(r._id) : m.user = "u1"}
         /\ MessagesOf(r._id) # {}

\* the steps of the ownership transfer of a Leave
TransferPcs == {"leave_saveRoom", "leave_saveNewOwner", "leave_deleteOne"}

\* C21: when the owner leaves, overlapped by no other request, a room that has
\* other members, the call stores the successor as Room.owner and gives the
\* successor's membership the role owner, changing nothing else on the way;
\* when it answers, the leaver holds no membership in the room, the new owner
\* it returns is Room.owner, and no message and no other membership changed.
C21_OwnershipTransferred ==
    [][\A s \in Slots :
          (/\ req[s].pc \in TransferPcs
           /\ req[s].solo
           /\ req[s].newOwnerMembership # NullMember
           /\ req'[s].pc # req[s].pc)
          => /\ Message' = Message
             /\ req[s].pc = "leave_saveRoom"
                  => /\ req'[s].pc = "leave_saveNewOwner"
                     /\ RoomMember' = RoomMember
                     /\ Room' = (Room \ {req[s].room}) \cup
                           {[req[s].room EXCEPT !.owner = req[s].newOwnerMembership.user]}
             /\ req[s].pc = "leave_saveNewOwner"
                  => /\ req'[s].pc = "leave_deleteOne"
                     /\ Room' = Room
                     /\ RoomMember' = (RoomMember \ {req[s].newOwnerMembership}) \cup
                           {[req[s].newOwnerMembership EXCEPT !.role = "owner"]}
             /\ req[s].pc = "leave_deleteOne"
                  => /\ resp' = Left
                     /\ Room' = Room
                     /\ RoomMember' = RoomMember \ {req[s].membership}
                     /\ \A m \in RoomMember' :
                          ~(m.room = req[s].room._id /\ m.user = req[s].user)
                     /\ \E r \in Room' :
                          /\ r._id = req[s].room._id
                          /\ r.owner = req[s].room.owner
                          /\ r.owner = req[s].newOwnerMembership.user
                          /\ \E m \in RoomMember' :
                               /\ m.room = r._id
                               /\ m.user = r.owner
                               /\ m.role = "owner"]_vars

\* C22: a Rename with a name that finds the room is refused if and only if
\* the requester is not the Room.owner stored at that time, whatever the roles
\* of the memberships, and a refused Rename changes nothing; the save of a
\* Rename changes the name of that room and nothing else, and a Rename of the
\* owner that no other request overlaps succeeds.
C22_RenameByOwner ==
    [][\A s \in Slots :
          /\ (/\ req[s].pc = "rename_room"
              /\ RoomExists(CastObjectId(req[s].roomId))
              /\ req'[s].pc # req[s].pc)
             => /\ UNCHANGED store
                /\ IF FindById(CastObjectId(req[s].roomId)).owner = req[s].user
                   THEN /\ req'[s].pc = "rename_save"
                        /\ req'[s].room = FindById(CastObjectId(req[s].roomId))
                   ELSE /\ req'[s].pc = "idle"
                        /\ resp' = OnlyCreator
          /\ (/\ req[s].pc = "rename_save"
              /\ req'[s].pc # req[s].pc)
             => /\ UNCHANGED <<RoomMember, Message>>
                /\ req[s].solo => resp' = Renamed
                /\ IF resp' = Renamed
                   THEN \E r \in Room :
                          /\ r._id = req[s].room._id
                          /\ Room' = (Room \ {r}) \cup {[r EXCEPT !.name = req[s].name]}
                   ELSE Room' = Room]_vars

\* C22, its case: the owner has left, the successor has renamed the room, and
\* the former owner is asking to rename it.
C22_FormerOwnerAsks ==
    \E s \in Slots, r \in Room :
        /\ req[s].pc = "rename_room"
        /\ req[s].user = "u1"
        /\ r._id = CastObjectId(req[s].roomId)
        /\ r.owner = "u2"
        /\ r.name = "New"
        /\ ~IsMember(r._id, "u1")

\* C23: a Details call that found the room is refused with "You are not a
\* member of this room" if and only if the requester holds no membership in
\* it; when it succeeds, the members it returns are every membership of the
\* room, each once, in ascending joinedAt, the membership it returns is one of
\* the requester in that room, which is in that list when no other request
\* overlaps; no step of the call changes a room, a membership or a message.
C23_Details ==
    [][\A s \in Slots :
          (/\ req[s].pc \in {"details_room", "details_member", "details_members"}
           /\ req'[s].pc # req[s].pc)
          => /\ UNCHANGED store
             /\ req[s].pc = "details_member"
                  => /\ (resp' = Forbidden) <=> ~IsMember(req[s].room._id, req[s].user)
                     /\ resp' # Forbidden => req'[s].pc = "details_members"
             /\ req[s].pc = "details_members"
                  => /\ resp' = RoomDetails
                     /\ body'.room = req[s].room
                     /\ {body'.members[i] : i \in DOMAIN body'.members}
                          = MembersOf(req[s].room._id)
                     /\ Len(body'.members) = CountDocuments(req[s].room._id)
                     /\ \A i, j \in DOMAIN body'.members :
                          i < j => body'.members[i].joinedAt <= body'.members[j].joinedAt
                     /\ body'.membership.room = req[s].room._id
                     /\ body'.membership.user = req[s].user
                     /\ req[s].solo =>
                          \E i \in DOMAIN body'.members :
                              body'.members[i] = body'.membership]_vars

\* C23, its case: the second member of a room has just been given its details,
\* with the two memberships of the room and its own.
C23_DetailsGiven ==
    /\ resp = RoomDetails
    /\ Len(body.members) = 2
    /\ body.membership = body.members[2]
    /\ body.membership.user = "u2"

\* C27: whenever no request is in flight, every stored message belongs to a
\* stored room, also after a message was sent while the last member left.
C27_NoMessageWithoutRoom ==
    Quiescent => \A m \in Message : RoomExists(m.room)

\* C30: a Create whose Room.create is rejected by the unique index on roomCode,
\* because another Create stored the same code first, goes back to the
\* generator for a new candidate and is not answered with a failure.
C30_RetryOnDuplicateKey ==
    [][\A s \in Slots :
          (/\ req[s].pc = "create_room"
           /\ DuplicateKey(req[s].roomCode)
           /\ req'[s].pc # req[s].pc)
          => /\ req'[s].pc = "generateRoomCode"
             /\ resp' # InternalError]_vars

\* C29: the generation of a room code ends: a Create that is drawing
\* candidates leaves the generator in the end, with a code or with a failure,
\* also when every candidate is the code of a stored room.
C29_GenerationEnds ==
    \A s \in Slots :
        (req[s].pc = "generateRoomCode") ~> (req[s].pc # "generateRoomCode")

\* C24: a send that is refused, because its content is blank or because the
\* author holds no membership in the room, stores no message and emits no
\* event: a request with blank content is answered before any store call,
\* and the membership lookup refuses exactly the authors without a membership.
C24_RefusedSendDoesNothing ==
    [][\A s \in Slots :
          /\ (Send_start(s) /\ resp' = ContentRequired)
             => UNCHANGED <<store, io, req>>
          /\ (req[s].pc = "idle" /\ req'[s].pc = "send_member")
             => Trim(req'[s].content) # << >>
          /\ (req[s].pc = "send_member" /\ req'[s].pc # req[s].pc)
             => /\ (resp' = Forbidden) <=> ~IsMember(req[s].room._id, req[s].user)
                /\ resp' = Forbidden => req'[s].pc = "idle" /\ UNCHANGED <<store, io>>]_vars

\* C24, its case: a send of an author without a membership has just been
\* refused while a connection was subscribed to the room; no message is
\* stored and nothing was emitted.
C24_OutsiderRefused ==
    /\ resp = Forbidden
    /\ Message = {}
    /\ InRoom(ToHexString(1)) # {}
    /\ io.delivered = {} /\ io.dropped = {}

\* C25: a send of a member with content that is not blank stores exactly one
\* new message, of that room and author with the content trimmed, before
\* anything is emitted, and answers with that message, whoever is subscribed;
\* when no other request overlaps, the message is stored when it is returned.
C25_StoredThenReturned ==
    [][\A s \in Slots :
          /\ (/\ req[s].pc = "send_member"
              /\ IsMember(req[s].room._id, req[s].user)
              /\ req'[s].pc # req[s].pc)
             => req'[s].pc = "send_create" /\ UNCHANGED <<store, io>>
          /\ (req[s].pc = "send_create" /\ req'[s].pc # req[s].pc)
             => /\ req'[s].pc = "send_populate"
                /\ io' = io
                /\ \E m \in Message' :
                     /\ \A x \in Message : x._id # m._id
                     /\ Message' = Message \cup {m}
                     /\ req'[s].message = m
                     /\ m.room = req[s].room._id
                     /\ m.author = req[s].user
                     /\ m.content = Trim(req[s].content)
                     /\ m.content # << >>
                     /\ Head(m.content) # " " /\ m.content[Len(m.content)] # " "
          /\ (req[s].pc = "send_populate" /\ req'[s].pc # req[s].pc)
             => /\ resp' = Sent
                /\ body'.message = req[s].message
                /\ Message' = Message
                /\ req[s].solo => req[s].message \in Message]_vars

\* C25, its case: a member has just been answered with the stored message
\* while no connection was subscribed to the room.
C25_ReturnedToUnsubscribed ==
    /\ resp = Sent
    /\ body.message \in Message
    /\ body.message.author = "u1"
    /\ body.message.content = <<"h">>
    /\ InRoom(ToHexString(1)) = {}

\* C26: when the push of a message to a subscribed connection fails, every
\* other connection subscribed to the room receives the message, the send
\* answers with success and the message stays stored.
C26_FailedPushIsolated ==
    [][\A s \in Slots :
          (req[s].pc = "send_populate" /\ req'[s].pc # req[s].pc)
          => /\ resp' = Sent
             /\ io'.dropped \subseteq InRoom(req[s].roomId)
             /\ io'.delivered = InRoom(req[s].roomId) \ io'.dropped
             /\ Message' = Message
             /\ req[s].message \in Message => body'.message \in Message']_vars

\* C26, its case: a message has just been sent to a room with two subscribed
\* connections; the push to one failed and the other received it.
C26_OnePushFailed ==
    /\ resp = Sent
    /\ io.dropped = {"c1"}
    /\ io.delivered = {"c2"}
    /\ body.message \in Message

\* C28: a connection that has closed is in the subscriber set of no room,
\* whichever rooms it had joined, and an emit reaches, or tries to reach, only
\* connections that are open.
C28_ClosedReceivesNothing ==
    [][/\ \A c \in Conns :
            ~io'.sockets[c].open
               => /\ io'.sockets[c].rooms = {}
                  /\ \A id \in RoomIds : c \notin Subscribers(id)'
       /\ \A s \in Slots :
            (req[s].pc = "send_populate" /\ req'[s].pc # req[s].pc)
            => \A c \in io'.delivered \cup io'.dropped : io.sockets[c].open]_vars

\* C28, its case: a connection that had joined both rooms closed, and a
\* message was then sent to the room and reached the other connection only.
C28_SentAfterClose ==
    /\ resp = Sent
    /\ ~io.sockets["c1"].open
    /\ io.sockets["c1"].was = {ToHexString(1), ToHexString(2)}
    /\ io.delivered = {"c2"}

\* the user who opened a connection; the server keeps no such record
UserOf(c) == IF c = "c1" THEN "u1" ELSE "u2"

\* C35: an emit delivers a message of a room only to connections of users who
\* hold a membership in that room at that time.
C35_DeliveredToMembersOnly ==
    [][\A s \in Slots :
          (req[s].pc = "send_populate" /\ req'[s].pc # req[s].pc)
          => \A c \in io'.delivered : IsMember(req[s].room._id, UserOf(c))]_vars

\* C36: a message is stored only while its author holds a membership in its
\* room, also when the send interleaves with a Leave of the author.
C36_AuthorIsMember ==
    [][\A s \in Slots :
          (req[s].pc = "send_create" /\ req'[s].pc # req[s].pc)
          => IsMember(req[s].room._id, req[s].user)]_vars

\* C37: whenever no request is in flight, every stored membership belongs to a
\* stored room, also after a join interleaved with the Leave of the last
\* member.
C37_NoMembershipWithoutRoom ==
    Quiescent => \A m \in RoomMember : RoomExists(m.room)

\* C38: every stored room has a maxMembers of at least 1 and no more
\* memberships than its maxMembers, whatever maxMembers its Create was given.
C38_PositiveCapacity ==
    \A r \in Room : r.maxMembers >= 1 /\ CountDocuments(r._id) <= r.maxMembers

\* the documents and the subscribers of the room of that id
RoomRow(id) == {r \in Room : r._id = id}

\* C31: a step of a join, a Leave, a Rename or a send changes the room, the
\* memberships and the messages of the room of its request only, and the
\* subscribers of no room, whatever requests on the other rooms are in flight.
C31_OtherRoomsUnchanged ==
    [][/\ \/ UNCHANGED <<Room, RoomMember, Message>>
          \/ \A id \in RoomIds :
                (\/ RoomRow(id)' # RoomRow(id)
                 \/ MembersOf(id)' # MembersOf(id)
                 \/ MessagesOf(id)' # MessagesOf(id))
                => \E s \in Slots :
                       /\ req'[s].pc # req[s].pc
                       /\ req[s].room._id = id
       /\ \/ req' = req
          \/ io'.sockets = io.sockets
          \/ \A id \in RoomIds : Subscribers(id)' = Subscribers(id)]_vars

\* C31, its case: the last member of room 1 has just left it while a request
\* on room 2 is in flight; room 2 has its room, its membership, its message
\* and its subscriber.
C31_RoomLeftNextToAnother ==
    /\ resp = Deleted
    /\ ~RoomExists(1)
    /\ MessagesOf(1) = {}
    /\ \E s \in Slots : req[s].pc # "idle" /\ req[s].room._id = 2
    /\ RoomExists(2)
    /\ \E m \in MembersOf(2) : m.user = "u2"
    /\ MessagesOf(2) # {}
    /\ Subscribers(2) = {"c2"}

\* C32: a stored message never changes, and it leaves the store only in the
\* Message.deleteMany of a Leave that is deleting its room, which goes on to
\* delete that room; no join, Rename, send or other Leave removes or alters
\* a message.
C32_MessagesImmutable ==
    [][/\ \A m \in Message :
            \/ m \in Message'
            \/ /\ \A x \in Message' : x._id # m._id
               /\ \E s \in Slots :
                    /\ req[s].pc = "leave_deleteMessages"
                    /\ req'[s].pc = "leave_deleteMembers"
                    /\ req[s].room._id = m.room
       /\ \A s \in Slots :
            (req[s].pc = "leave_deleteRoom" /\ req'[s].pc # req[s].pc)
            => \A r \in Room' : r._id # req[s].room._id]_vars

\* C32, its case: the author of a message has just left the room, which
\* another member keeps and has renamed; the message is stored as it was.
C32_AuthorLeftMessageKept ==
    /\ resp = Left
    /\ \E m \in Message, r \in Room :
         /\ m = [_id |-> 1, room |-> 2, author |-> "u2", content |-> <<"h">>,
                 createdAt |-> 1]
         /\ r._id = m.room
         /\ r.name = "New"
         /\ ~IsMember(m.room, m.author)

\* the ids of the messages that a send has created and answered with: ids are
\* handed out in order, and a send still at its emit has not answered yet
Returned ==
    {i \in 1..(nextMsgId - 1) :
        \A t \in Slots : ~(req[t].pc = "send_populate" /\ req[t].message._id = i)}

\* C34: a member who reads the messages of a stored room is answered with
\* every message that a send on the room has answered with or pushed, each
\* once and ascending in createdAt, whether or not the pushes got through.
C34_HistoryComplete ==
    [][\A s \in Slots :
          (/\ req[s].pc = "history_messages"
           /\ req'[s].pc = "idle"
           /\ RoomExists(req[s].room._id)
           /\ IsMember(req[s].room._id, req[s].user))
          => /\ resp' = RoomMessages
             /\ \A i, j \in DOMAIN body'.messages :
                   /\ i # j => body'.messages[i]._id # body'.messages[j]._id
                   /\ i < j => body'.messages[i].createdAt <= body'.messages[j].createdAt
             /\ \A i \in DOMAIN body'.messages :
                   body'.messages[i].room = req[s].room._id
             /\ Returned \subseteq
                   {body'.messages[i]._id : i \in DOMAIN body'.messages}]_vars

\* C33: a connection receives a message only at the emit of the send that
\* stored it, and only if it is subscribed to the room at that emit, however
\* often it subscribed; what it has received holds no message twice.
C33_AtMostOnce ==
    [][\A c \in Conns :
          /\ io'.inbox[c] # io.inbox[c]
             => \E s \in Slots :
                   /\ req[s].pc = "send_populate"
                   /\ req'[s].pc = "idle"
                   /\ c \in InRoom(req[s].roomId)
                   /\ io'.inbox[c] = Append(io.inbox[c], req[s].message._id)
          /\ \A i, j \in DOMAIN io'.inbox[c] :
                i # j => io'.inbox[c][i] # io'.inbox[c][j]]_vars

\* C33, its case: two messages were sent; the connection subscribed all along
\* received each once, the connection that subscribed after the first emit
\* received the second only.
C33_SubscribedLate ==
    /\ resp = Sent
    /\ Cardinality(MessagesOf(1)) = 2
    /\ io.inbox["c1"] = <<1, 2>>
    /\ io.inbox["c2"] = <<2>>
    /\ {"c1", "c2"} \subseteq InRoom(ToHexString(1))
====
